---- MODULE Spec2Model ----
(***************************************************************************)
(* A model of EmulationResourceParser.py: the Domain / Board entities, the *)
(* EmulatorResourceParser object (header parser, line classifier, section  *)
(* parser, run_command) and its queries.                                   *)
(*                                                                         *)
(* Representation.  A Python str without newlines is a sequence of         *)
(* one-character strings.  A text (the `output` argument, stdout) is the   *)
(* non-empty sequence of the strings between its "\n" characters, so the   *)
(* empty text is << <<>> >>.  Python's None is None where the other values  *)
(* are ints (which are never negative there) and NoneStr where they are    *)
(* strs (no str has a four-character element).                             *)
(***************************************************************************)
EXTENDS Integers, Sequences, FiniteSets, TLC

None == -1

NoneStr == <<"None">>

(***************************************************************************)
(* Character classes and str primitives                                    *)
(***************************************************************************)
\* str.isspace() characters that can occur inside one line
WS == {" ", "\t"}

\* regex \d (ASCII part)
Digit == {"0", "1", "2", "3", "4", "5", "6", "7", "8", "9"}

Letter ==
    {"a", "b", "c", "d", "e", "f", "g", "h", "i", "j", "k", "l", "m", "n", "o",
     "p", "q", "r", "s", "t", "u", "v", "w", "x", "y", "z",
     "A", "B", "C", "D", "E", "F", "G", "H", "I", "J", "K", "L", "M", "N", "O",
     "P", "Q", "R", "S", "T", "U", "V", "W", "X", "Y", "Z"}

\* regex \w (ASCII part)
WordCh == Letter \cup Digit \cup {"_"}

SetMin(S) == CHOOSE x \in S : \A y \in S : x <= y

SetMax(S) == CHOOSE x \in S : \A y \in S : x >= y

\* s[a..b] as Python slices it: empty when the range is empty
Slice(s, a, b) == IF a > b THEN <<>> ELSE SubSeq(s, a, b)

\* the places of the first and of the last character of s outside cls
\* (s has one)
FirstNotIn(s, cls) ==
    CHOOSE i \in 1..Len(s) : s[i] \notin cls /\ \A j \in 1..(i - 1) : s[j] \in cls

LastNotIn(s, cls) ==
    CHOOSE i \in 1..Len(s) :
        s[i] \notin cls /\ \A j \in (i + 1)..Len(s) : s[j] \in cls

\* str.isspace() or empty
BlankLine(s) == \A i \in 1..Len(s) : s[i] \in WS

\* str.strip()
StripStr(s) ==
    IF BlankLine(s) THEN <<>>
    ELSE SubSeq(s, FirstNotIn(s, WS), LastNotIn(s, WS))

\* str.lstrip() / str.rstrip(), used by the strip of a whole text
LStripStr(s) ==
    IF BlankLine(s) THEN <<>> ELSE SubSeq(s, FirstNotIn(s, WS), Len(s))

RStripStr(s) ==
    IF BlankLine(s) THEN <<>> ELSE SubSeq(s, 1, LastNotIn(s, WS))

\* the literal lit occurs in s at position p
LitAt(s, p, lit) ==
    /\ p >= 1
    /\ p + Len(lit) - 1 <= Len(s)
    /\ SubSeq(s, p, p + Len(lit) - 1) = lit

\* str.startswith(lit)
StartsWith(s, lit) == LitAt(s, 1, lit)

\* lit in s
Contains(s, lit) == \E p \in 1..(Len(s) - Len(lit) + 1) : LitAt(s, p, lit)

\* last index of the maximal run of characters of class cls that starts at p
\* (p - 1 when s[p] is not in cls): what a greedy cls* consumes
RunEnd(s, p, cls) ==
    LET stop == {j \in p..Len(s) : s[j] \notin cls}
    IN  IF stop = {} THEN Len(s) ELSE SetMin(stop) - 1

\* last index of the maximal run of characters outside cls that starts at p
RunEndNot(s, p, cls) ==
    LET stop == {j \in p..Len(s) : s[j] \in cls}
    IN  IF stop = {} THEN Len(s) ELSE SetMin(stop) - 1

\* str.split(): the maximal runs of non-whitespace, in order
TokenStarts(s) ==
    {i \in 1..Len(s) : s[i] \notin WS /\ (i = 1 \/ s[i - 1] \in WS)}

RECURSIVE TokensFrom(_, _)
TokensFrom(s, starts) ==
    IF starts = {} THEN <<>>
    ELSE LET a == SetMin(starts)
         IN  <<SubSeq(s, a, RunEndNot(s, a, WS))>>
             \o TokensFrom(s, starts \ {a})

SplitWS(s) == TokensFrom(s, TokenStarts(s))

\* str.split('.'): the pieces between the dots, empty pieces kept
RECURSIVE PiecesFrom(_, _, _)
PiecesFrom(s, from, dots) ==
    IF dots = {} THEN <<Slice(s, from, Len(s))>>
    ELSE LET d == SetMin(dots)
         IN  <<Slice(s, from, d - 1)>> \o PiecesFrom(s, d + 1, dots \ {d})

SplitDot(s) == PiecesFrom(s, 1, {i \in 1..Len(s) : s[i] = "."})

(***************************************************************************)
(* int(str)                                                                *)
(***************************************************************************)
DigitVal ==
    "0" :> 0 @@ "1" :> 1 @@ "2" :> 2 @@ "3" :> 3 @@ "4" :> 4 @@
    "5" :> 5 @@ "6" :> 6 @@ "7" :> 7 @@ "8" :> 8 @@ "9" :> 9

RECURSIVE DecVal(_)
DecVal(ds) ==
    IF ds = <<>> THEN 0
    ELSE 10 * DecVal(SubSeq(ds, 1, Len(ds) - 1)) + DigitVal[ds[Len(ds)]]

\* CPython's default limit on the digits of a str converted by int()
\* (sys.int_info.default_max_str_digits)
INT_MAX_STR_DIGITS == 4300

\* int(s) for a str s without surrounding whitespace: an optional sign, then
\* digits, single underscores allowed between digits.  The result is
\* [ok |-> TRUE, val |-> n], or [ok |-> FALSE] for ValueError (bad literal, or
\* more digits than the interpreter converts).
PyInt(s) ==
    LET signed == Len(s) >= 1 /\ s[1] \in {"+", "-"}
        body   == IF signed THEN Slice(s, 2, Len(s)) ELSE s
        n      == Len(body)
        shape  == /\ n >= 1
                  /\ \A i \in 1..n : body[i] \in Digit \cup {"_"}
                  /\ body[1] \in Digit /\ body[n] \in Digit
                  /\ \A i \in 1..(n - 1) : ~(body[i] = "_" /\ body[i + 1] = "_")
        digits == SelectSeq(body, LAMBDA c : c \in Digit)
    IN  IF ~shape \/ Len(digits) > INT_MAX_STR_DIGITS
        THEN [ok |-> FALSE]
        ELSE [ok |-> TRUE,
              val |-> IF signed /\ s[1] = "-" THEN 0 - DecVal(digits)
                      ELSE DecVal(digits)]

\* "{}".format(n) for an int n
RECURSIVE NatStr(_)
NatStr(n) ==
    LET d == CHOOSE c \in Digit : DigitVal[c] = n % 10
    IN  IF n < 10 THEN <<d>> ELSE NatStr(n \div 10) \o <<d>>

IntStr(n) == IF n < 0 THEN <<"-">> \o NatStr(0 - n) ELSE NatStr(n)

(***************************************************************************)
(* The literals of the source                                              *)
(***************************************************************************)
\* "Cluster"
LitCluster ==
    <<"C", "l", "u", "s", "t", "e", "r">>

\* "Cluster "
LitClusterSp ==
    <<"C", "l", "u", "s", "t", "e", "r", " ">>

\* " has "
LitSpHasSp ==
    <<" ", "h", "a", "s", " ">>

\* " boards"
LitSpBoards ==
    <<" ", "b", "o", "a", "r", "d", "s">>

\* "CCD: "
LitCCD ==
    <<"C", "C", "D", ":", " ">>

\* "Board"
LitBoard ==
    <<"B", "o", "a", "r", "d">>

\* " has"
LitSpHas ==
    <<" ", "h", "a", "s">>

\* "has"
LitHas ==
    <<"h", "a", "s">>

\* "domains"
LitDomains ==
    <<"d", "o", "m", "a", "i", "n", "s">>

\* " domains"
LitSpDomains ==
    <<" ", "d", "o", "m", "a", "i", "n", "s">>

\* "Board: "
LitBoardColon ==
    <<"B", "o", "a", "r", "d", ":", " ">>

\* "Domain"
LitDomain ==
    <<"D", "o", "m", "a", "i", "n">>

\* "."
LitDot ==
    <<".">>

\* "Owner"
LitOwner ==
    <<"O", "w", "n", "e", "r">>

\* "PID"
LitPID ==
    <<"P", "I", "D">>

\* "--"
LitDashes ==
    <<"-", "-">>

\* "NONE"
LitNONE ==
    <<"N", "O", "N", "E">>

\* "Emulator:"
LitEmulator ==
    <<"E", "m", "u", "l", "a", "t", "o", "r", ":">>

\* "Hardware:"
LitHardware ==
    <<"H", "a", "r", "d", "w", "a", "r", "e", ":">>

\* "Configmgr:"
LitConfigmgr ==
    <<"C", "o", "n", "f", "i", "g", "m", "g", "r", ":">>

\* "System Status:"
LitSystemStatus ==
    <<"S", "y", "s", "t", "e", "m", " ", "S", "t", "a", "t", "u", "s", ":">>

(***************************************************************************)
(* Regular expressions.  The two line patterns are sequences of items, a   *)
(* literal or a one-or-more run of a character class (\d+, \s+, \w+),      *)
(* matched left to right from the start of the line as re.match does.  In  *)
(* both patterns every run is followed by a literal that starts with a     *)
(* character outside the run's class (or ends the pattern), so taking the  *)
(* maximal run is all a backtracking engine can succeed with.              *)
(***************************************************************************)
Lit(lit) == [kind |-> "lit", lit |-> lit, cls |-> {}]

Plus(cls) == [kind |-> "plus", lit |-> <<>>, cls |-> cls]

\* the position after item matched at position p of s, 0 when it does not match
MatchItem(s, p, item) ==
    IF item.kind = "lit"
    THEN (IF LitAt(s, p, item.lit) THEN p + Len(item.lit) ELSE 0)
    ELSE (IF p <= Len(s) /\ s[p] \in item.cls
          THEN RunEnd(s, p, item.cls) + 1 ELSE 0)

\* the positions after each item of pat[k..] matched from position p, after
\* the positions ends of the items before; <<>> when the pattern fails
RECURSIVE MatchFrom(_, _, _, _, _)
MatchFrom(s, pat, k, p, ends) ==
    IF k > Len(pat) THEN ends
    ELSE LET q == MatchItem(s, p, pat[k])
         IN  IF q = 0 THEN <<>>
             ELSE MatchFrom(s, pat, k + 1, q, Append(ends, q))

\* what item k of a matched pattern consumed
Consumed(s, ends, k) == SubSeq(s, ends[k - 1], ends[k] - 1)

\* r'Cluster (\d+) has \d+ boards\s+CCD: (\w+)'
ClusterPattern ==
    <<Lit(LitClusterSp), Plus(Digit), Lit(LitSpHasSp), Plus(Digit),
      Lit(LitSpBoards), Plus(WS), Lit(LitCCD), Plus(WordCh)>>

\* re.match(ClusterPattern, line), with its groups 1 and 2
ClusterMatch(line) ==
    LET ends == MatchFrom(line, ClusterPattern, 1, 1, <<>>)
    IN  IF ends = <<>> THEN [ok |-> FALSE]
        ELSE [ok |-> TRUE, g1 |-> Consumed(line, ends, 2),
              g2 |-> Consumed(line, ends, 8)]

\* r'Board\s+(\d+) has\s+\d+ domains\s+Board: (\w+)'
BoardPattern ==
    <<Lit(LitBoard), Plus(WS), Plus(Digit), Lit(LitSpHas), Plus(WS),
      Plus(Digit), Lit(LitSpDomains), Plus(WS), Lit(LitBoardColon),
      Plus(WordCh)>>

\* re.match(BoardPattern, line), with its groups 1 and 2
BoardMatch(line) ==
    LET ends == MatchFrom(line, BoardPattern, 1, 1, <<>>)
    IN  IF ends = <<>> THEN [ok |-> FALSE]
        ELSE [ok |-> TRUE, g1 |-> Consumed(line, ends, 3),
              g2 |-> Consumed(line, ends, 10)]

\* the positions at which label occurs in s
Occurrences(s, label) == {p \in 1..Len(s) : LitAt(s, p, label)}

\* re.search(label + r'\s*(\S+)', s): group 1 of the leftmost match, or NoneStr
SearchNonSpace(s, label) ==
    LET from(p) == RunEnd(s, p + Len(label), WS) + 1
        hits    == {p \in Occurrences(s, label) : from(p) <= Len(s)}
    IN  IF hits = {} THEN NoneStr
        ELSE LET q == from(SetMin(hits))
             IN  SubSeq(s, q, RunEndNot(s, q, WS))

\* re.search(label + r'\s*(\w+)', s): group 1 of the leftmost match, or NoneStr
SearchWord(s, label) ==
    LET from(p) == RunEnd(s, p + Len(label), WS) + 1
        hits    == {p \in Occurrences(s, label) :
                       from(p) <= Len(s) /\ s[from(p)] \in WordCh}
    IN  IF hits = {} THEN NoneStr
        ELSE LET q == from(SetMin(hits))
             IN  SubSeq(s, q, RunEnd(s, q, WordCh))

\* re.search(r'Hardware:\s*([\w\s]+?)(?=Configmgr:|$)', s): group 1 of the
\* leftmost match, stripped, or NoneStr.  The lazy group ends at the first
\* place where "Configmgr:" or the end of s follows; wherever the greedy \s*
\* hands over to the group, the stripped group is the same.
SearchHardware(s) ==
    LET ends(p) == {b \in (p + Len(LitHardware))..Len(s) :
                       /\ \A i \in (p + Len(LitHardware))..b : s[i] \in WordCh \cup WS
                       /\ b = Len(s) \/ LitAt(s, b + 1, LitConfigmgr)}
        hits    == {p \in Occurrences(s, LitHardware) : ends(p) # {}}
    IN  IF hits = {} THEN NoneStr
        ELSE LET p == SetMin(hits)
             IN  StripStr(SubSeq(s, p + Len(LitHardware), SetMin(ends(p))))

(***************************************************************************)
(* Domain and Board                                                        *)
(***************************************************************************)
\* Domain.__init__
Domain(board, domain, owner, pid, t_pod, design, elapsed_time, reserved_key) ==
    [board |-> board, domain |-> domain, owner |-> owner, pid |-> pid,
     t_pod |-> t_pod, design |-> design, elapsed_time |-> elapsed_time,
     reserved_key |-> reserved_key, is_free |-> (owner = LitNONE)]

\* a get_full_id that formats the board number twice
get_full_id_BoardTwice(d) == IntStr(d.board) \o LitDot \o IntStr(d.board)

\* Domain.get_full_id: "{}.{}".format(self.board, self.domain)
get_full_id(d) == IntStr(d.board) \o LitDot \o IntStr(d.domain)

\* Board.__init__
Board(board_id, cluster_id, status) ==
    [board_id |-> board_id, cluster_id |-> cluster_id, status |-> status,
     domains |-> <<>>]

\* Board.add_domain
add_domain(board, domain) ==
    [board EXCEPT !.domains = Append(board.domains, domain)]

\* Board.get_free_domains / Board.get_used_domains.  A Domain object is
\* named by its place in its Board's list, so the list a Board returns is
\* the increasing sequence of the places whose Domain passes the test.
RECURSIVE Places(_, _, _)
Places(domains, from, wantFree) ==
    IF from > Len(domains) THEN <<>>
    ELSE (IF domains[from].is_free = wantFree THEN <<from>> ELSE <<>>)
         \o Places(domains, from + 1, wantFree)

BoardFreeDomains(board) == Places(board.domains, 1, TRUE)

BoardUsedDomains(board) == Places(board.domains, 1, FALSE)

(***************************************************************************)
(* EmulatorResourceParser                                                  *)
(***************************************************************************)
\* EmulatorResourceParser.__init__
NewParser ==
    [emulator_name |-> NoneStr, hardware |-> NoneStr, configmgr |-> NoneStr,
     system_status |-> NoneStr, boards |-> <<>>, raw_output |-> << <<>> >>,
     timestamp |-> None]

\* _parse_header
ParseHeader(self, header) ==
    [self EXCEPT !.emulator_name = SearchNonSpace(header, LitEmulator),
                 !.hardware      = SearchHardware(header),
                 !.configmgr     = SearchNonSpace(header, LitConfigmgr),
                 !.system_status = SearchWord(header, LitSystemStatus)]

\* output.strip().split('\n') on a text given as its lines: the whitespace
\* that strip() removes from the two ends of the text includes the newlines
StripSplit(output) ==
    LET keep  == {i \in 1..Len(output) : ~BlankLine(output[i])}
        first == SetMin(keep)
        last  == SetMax(keep)
    IN  IF keep = {} THEN << <<>> >>
        ELSE [i \in 1..(last - first + 1) |->
                 LET l  == output[first + i - 1]
                     l1 == IF i = 1 THEN LStripStr(l) ELSE l
                 IN  IF first + i - 1 = last THEN RStripStr(l1) ELSE l1]

\* board_num, domain_num = map(int, domain_id.split('.')): ValueError unless
\* there are exactly two pieces and int() takes both
TwoInts(b, d) ==
    IF b.ok /\ d.ok
    THEN [ok |-> TRUE, board_num |-> b.val, domain_num |-> d.val]
    ELSE [ok |-> FALSE]

ParseDomainId(domain_id) ==
    IF Len(SplitDot(domain_id)) # 2 THEN [ok |-> FALSE]
    ELSE TwoInts(PyInt(SplitDot(domain_id)[1]), PyInt(SplitDot(domain_id)[2]))

(***************************************************************************)
(* The loop "for line in lines[1:]" of parse_output.  Its state st holds   *)
(* self.boards, the locals current_cluster and current_board (the place of *)
(* the current Board in self.boards, which is where the reference points)  *)
(* and raised, set when an exception leaves the loop.                      *)
(***************************************************************************)
\* lines 142-162 with id the outcome of line 144: a ValueError is caught and
\* the line skipped (163-164), otherwise the Domain is built and added to
\* the current Board
AddDomain(st, parts, id) ==
    IF ~id.ok THEN st
    ELSE [st EXCEPT !.boards[st.current_board] =
             add_domain(st.boards[st.current_board],
                        Domain(id.board_num, id.domain_num, parts[2], parts[3],
                               IF parts[6] # LitDashes THEN parts[6] ELSE <<>>,
                               parts[7],
                               IF Len(parts) > 7 THEN parts[8] ELSE LitDashes,
                               IF Len(parts) > 8 THEN parts[9] ELSE LitDashes))]

\* a test "len(parts) > 8" at line 140
OnDomainFields_MoreThan8(st, parts) ==
    IF Len(parts) > 8 /\ st.current_board # None
    THEN (IF Contains(parts[1], LitDot)
          THEN AddDomain(st, parts, ParseDomainId(parts[1]))
          ELSE st)
    ELSE st

\* lines 139-164: the fields of a line of the domain branch
OnDomainFields(st, parts) ==
    IF Len(parts) >= 8 /\ st.current_board # None
    THEN (IF Contains(parts[1], LitDot)
          THEN AddDomain(st, parts, ParseDomainId(parts[1]))
          ELSE st)
    ELSE st

\* lines 134-164: a line of the domain branch; a column header is skipped
OnDomainLine(st, line) ==
    IF Contains(line, LitOwner) /\ Contains(line, LitPID) THEN st
    ELSE OnDomainFields(st, SplitWS(line))

\* line 121: current_cluster = int(match.group(1)), outside any try
SetCluster(st, n) ==
    IF n.ok THEN [st EXCEPT !.current_cluster = n.val]
    ELSE [st EXCEPT !.raised = TRUE]

\* a Cluster branch that forgets the cluster when the line does not match
OnClusterLine_Forgets(st, match) ==
    IF match.ok THEN SetCluster(st, PyInt(match.g1))
    ELSE [st EXCEPT !.current_cluster = None]

\* lines 119-121: a line that starts with 'Cluster'
OnClusterLine(st, match) ==
    IF match.ok THEN SetCluster(st, PyInt(match.g1)) ELSE st

\* lines 127-130: a new Board (its int() too is outside any try), appended
\* to self.boards and made the current Board
NewBoard(st, n, board_status) ==
    IF n.ok
    THEN [st EXCEPT !.boards = Append(st.boards,
                                      Board(n.val, st.current_cluster,
                                            board_status)),
                    !.current_board = Len(st.boards) + 1]
    ELSE [st EXCEPT !.raised = TRUE]

\* lines 125-130: a line that starts with 'Board' and holds 'has', 'domains'
OnBoardLine(st, match) ==
    IF match.ok THEN NewBoard(st, PyInt(match.g1), match.g2) ELSE st

\* the test of line 124
BoardBranch(line) ==
    /\ StartsWith(line, LitBoard)
    /\ Contains(line, LitHas)
    /\ Contains(line, LitDomains)

\* the test of line 133
DomainBranch(line) ==
    \/ StartsWith(line, LitDomain)
    \/ Len(line) >= 5 /\ Contains(Slice(line, 1, 5), LitDot)

\* lines 114-164: the stripped line goes to the first branch that takes it
Dispatch(st, line) ==
    IF line = <<>> THEN st
    ELSE IF StartsWith(line, LitCluster) THEN OnClusterLine(st, ClusterMatch(line))
    ELSE IF BoardBranch(line) THEN OnBoardLine(st, BoardMatch(line))
    ELSE IF DomainBranch(line) THEN OnDomainLine(st, line)
    ELSE st

\* one pass of the loop (lines 112-164)
ProcessLine(st, raw) == Dispatch(st, StripStr(raw))

\* the passes for lines[i..], ended by the first exception
RECURSIVE ProcessLines(_, _, _)
ProcessLines(st, lines, i) ==
    IF i > Len(lines) \/ st.raised THEN st
    ELSE ProcessLines(ProcessLine(st, lines[i]), lines, i + 1)

\* lines 109-110, with the Board list the loop starts from
LoopStart(self_boards) ==
    [boards |-> self_boards, current_cluster |-> None,
     current_board |-> None, raised |-> FALSE]

(***************************************************************************)
(* parse_output                                                            *)
(***************************************************************************)
\* a parse_output that takes the time on every call
StampIfUnset_Always(self, now) == [self EXCEPT !.timestamp = now]

\* lines 98-99: the timestamp is taken only if none is set
StampIfUnset(self, now) ==
    IF self.timestamp = None THEN [self EXCEPT !.timestamp = now] ELSE self

\* a parse_output without line 101
ClearBoards_Kept(self) == self

\* line 101: self.boards = []
ClearBoards(self) == [self EXCEPT !.boards = <<>>]

\* what the loop leaves: the parser and whether an exception left it
LoopEnds(self, st) ==
    [self |-> [self EXCEPT !.boards = st.boards], raised |-> st.raised]

\* lines 109-164
SectionLoop(self, lines) ==
    LoopEnds(self, ProcessLines(LoopStart(self.boards), lines, 2))

\* lines 105-164
ParseLines(self, lines) == SectionLoop(ParseHeader(self, lines[1]), lines)

\* parse_output(self, output) called at time now: the parser it leaves and
\* whether it raised
parse_output(self, output, now) ==
    ParseLines(ClearBoards(StampIfUnset(self, now)), StripSplit(output))

\* What leaves run_command when its call of parse_output ends: any exception
\* is raised again as a RuntimeError (lines 87-88)
AfterParse(parsed) ==
    [self |-> parsed.self,
     exc  |-> IF parsed.raised THEN "RuntimeError: Failed to run command"
              ELSE "none"]

\* What run_command(self, command) does for each thing the command can do:
\* write stdout and exit ([kind |-> "stdout", text |-> ...]), outlive the
\* 30 s of communicate ([kind |-> "timeout"]) or fail to be started or read
\* ([kind |-> "oserror"]).  exc is the exception that leaves run_command.
run_command(self, outcome, now) ==
    IF outcome.kind = "timeout"
    THEN [self |-> [self EXCEPT !.timestamp = now],
          exc |-> "RuntimeError: timed out"]
    ELSE IF outcome.kind = "oserror"
    THEN [self |-> [self EXCEPT !.timestamp = now],
          exc |-> "RuntimeError: Failed to run command"]
    ELSE AfterParse(parse_output([self EXCEPT !.timestamp = now,
                                              !.raw_output = outcome.text],
                                 outcome.text, now))

(***************************************************************************)
(* Queries.  A reference to a Domain object is its place <<i, j>>: the     *)
(* object self.boards[i].domains[j].                                       *)
(***************************************************************************)
DomainAt(self, ref) == self.boards[ref[1]].domains[ref[2]]

\* the references to the Domains of board i at the places listed
RefsOf(i, places) == [k \in 1..Len(places) |-> <<i, places[k]>>]

\* the loop of get_free_domains (wantFree) and of get_used_domains
RECURSIVE ExtendFrom(_, _, _, _)
ExtendFrom(boards, i, cluster, wantFree) ==
    IF i > Len(boards) THEN <<>>
    ELSE (IF cluster = None \/ boards[i].cluster_id = cluster
          THEN RefsOf(i, IF wantFree THEN BoardFreeDomains(boards[i])
                         ELSE BoardUsedDomains(boards[i]))
          ELSE <<>>)
         \o ExtendFrom(boards, i + 1, cluster, wantFree)

get_free_domains(self, cluster) == ExtendFrom(self.boards, 1, cluster, TRUE)

\* a get_used_domains that leaves the cluster filter out
get_used_domains_Unfiltered(self, cluster) ==
    ExtendFrom(self.boards, 1, None, FALSE)

get_used_domains(self, cluster) == ExtendFrom(self.boards, 1, cluster, FALSE)

\* a dictionary that puts a new owner first
DictAppend_NewFirst(items, owner, ref) ==
    IF \E k \in 1..Len(items) : items[k].user = owner
    THEN LET k == CHOOSE k \in 1..Len(items) : items[k].user = owner
         IN  [items EXCEPT ![k].domains = Append(items[k].domains, ref)]
    ELSE <<[user |-> owner, domains |-> <<ref>>]>> \o items

\* user_domains[owner].append(ref) on a defaultdict(list), kept as the
\* sequence of its items in insertion order
DictAppend(items, owner, ref) ==
    IF \E k \in 1..Len(items) : items[k].user = owner
    THEN LET k == CHOOSE k \in 1..Len(items) : items[k].user = owner
         IN  [items EXCEPT ![k].domains = Append(items[k].domains, ref)]
    ELSE Append(items, [user |-> owner, domains |-> <<ref>>])

RECURSIVE GroupUsed(_, _, _, _)
GroupUsed(self, i, k, items) ==
    IF i > Len(self.boards) THEN items
    ELSE LET used == BoardUsedDomains(self.boards[i])
         IN  IF k > Len(used) THEN GroupUsed(self, i + 1, 1, items)
             ELSE GroupUsed(self, i, k + 1,
                            DictAppend(items,
                                       self.boards[i].domains[used[k]].owner,
                                       <<i, used[k]>>))

\* get_domains_by_user: the items (user, list of Domains) of the dict
get_domains_by_user(self) == GroupUsed(self, 1, 1, <<>>)

\* sum(len(b.domains) for b in self.boards)
RECURSIVE SumDomains(_, _)
SumDomains(boards, i) ==
    IF i > Len(boards) THEN 0
    ELSE Len(boards[i].domains) + SumDomains(boards, i + 1)

\* A Python number as the exact fraction num / den (the float the
\* interpreter computes is the double nearest to it)
Number(n) == [num |-> n, den |-> 1]

TrueDiv(a, b) == [num |-> a, den |-> b]

Times(q, n) == [num |-> q.num * n, den |-> q.den]

\* a line 233 that divides used by free domains
Utilization_OverFree(used_domains, total_domains) ==
    IF total_domains > used_domains
    THEN Times(TrueDiv(used_domains, total_domains - used_domains), 100)
    ELSE Number(0)

\* line 233: (used_domains / total_domains * 100) if total_domains > 0 else 0
Utilization(used_domains, total_domains) ==
    IF total_domains > 0
    THEN Times(TrueDiv(used_domains, total_domains), 100)
    ELSE Number(0)

\* get_resource_summary
get_resource_summary(self) ==
    LET total_domains == SumDomains(self.boards, 1)
        free_domains  == Len(get_free_domains(self, None))
        used_domains  == Len(get_used_domains(self, None))
        by_user       == get_domains_by_user(self)
    IN  [emulator      |-> self.emulator_name,
         hardware      |-> self.hardware,
         system_status |-> self.system_status,
         total_boards  |-> Len(self.boards),
         total_domains |-> total_domains,
         free_domains  |-> free_domains,
         used_domains  |-> used_domains,
         utilization_percent |-> Utilization(used_domains, total_domains),
         users |-> [k \in 1..Len(by_user) |-> by_user[k].user]]

(***************************************************************************)
(* The lines the input texts are made of                                  *)
(***************************************************************************)
\* a run of digits one longer than int() converts
HugeDigits == [i \in 1..(INT_MAX_STR_DIGITS + 1) |-> "9"]

\* "Emulator: E1 Hardware: Box 3 Configmgr: C7 System Status: OK"
HdrFull ==
    <<"E", "m", "u", "l", "a", "t", "o", "r", ":", " ", "E", "1", " ", "H",
      "a", "r", "d", "w", "a", "r", "e", ":", " ", "B", "o", "x", " ", "3",
      " ", "C", "o", "n", "f", "i", "g", "m", "g", "r", ":", " ", "C", "7",
      " ", "S", "y", "s", "t", "e", "m", " ", "S", "t", "a", "t", "u", "s",
      ":", " ", "O", "K">>

\* "System Status: DOWN"
HdrSparse ==
    <<"S", "y", "s", "t", "e", "m", " ", "S", "t", "a", "t", "u", "s", ":",
      " ", "D", "O", "W", "N">>

\* "Cluster 0 has 2 boards CCD: X"
ClusterA ==
    <<"C", "l", "u", "s", "t", "e", "r", " ", "0", " ", "h", "a", "s", " ",
      "2", " ", "b", "o", "a", "r", "d", "s", " ", "C", "C", "D", ":", " ",
      "X">>

\* "Cluster 07 has 1 boards  CCD: Y1"
ClusterB ==
    <<"C", "l", "u", "s", "t", "e", "r", " ", "0", "7", " ", "h", "a", "s",
      " ", "1", " ", "b", "o", "a", "r", "d", "s", " ", " ", "C", "C", "D",
      ":", " ", "Y", "1">>

\* "Cluster 3  has 1 boards CCD: X"
ClusterBad ==
    <<"C", "l", "u", "s", "t", "e", "r", " ", "3", " ", " ", "h", "a", "s",
      " ", "1", " ", "b", "o", "a", "r", "d", "s", " ", "C", "C", "D", ":",
      " ", "X">>

\* "Cluster " <HugeDigits> " has 1 boards CCD: X"
ClusterHuge ==
    <<"C", "l", "u", "s", "t", "e", "r", " ">>
    \o HugeDigits \o
    <<" ", "h", "a", "s", " ", "1", " ", "b", "o", "a", "r", "d", "s", " ", "C", "C", "D", ":", " ", "X">>

\* "Board 0 has 2 domains Board: UP"
BoardA ==
    <<"B", "o", "a", "r", "d", " ", "0", " ", "h", "a", "s", " ", "2", " ",
      "d", "o", "m", "a", "i", "n", "s", " ", "B", "o", "a", "r", "d", ":",
      " ", "U", "P">>

\* "Board  1 has  2 domains\tBoard: DOWN"
BoardB ==
    <<"B", "o", "a", "r", "d", " ", " ", "1", " ", "h", "a", "s", " ", " ",
      "2", " ", "d", "o", "m", "a", "i", "n", "s", "\t", "B", "o", "a", "r",
      "d", ":", " ", "D", "O", "W", "N">>

\* "Board 2 has two domains Board: UP"
BoardBad ==
    <<"B", "o", "a", "r", "d", " ", "2", " ", "h", "a", "s", " ", "t", "w",
      "o", " ", "d", "o", "m", "a", "i", "n", "s", " ", "B", "o", "a", "r",
      "d", ":", " ", "U", "P">>

\* "0.0 NONE -- -- -- -- DA 00:01 --"
DomFree ==
    <<"0", ".", "0", " ", "N", "O", "N", "E", " ", "-", "-", " ", "-", "-",
      " ", "-", "-", " ", "-", "-", " ", "D", "A", " ", "0", "0", ":", "0",
      "1", " ", "-", "-">>

\* "  0.1 alice 12 -- -- P1 DB 01:02"
DomAlice ==
    <<" ", " ", "0", ".", "1", " ", "a", "l", "i", "c", "e", " ", "1", "2",
      " ", "-", "-", " ", "-", "-", " ", "P", "1", " ", "D", "B", " ", "0",
      "1", ":", "0", "2">>

\* "1.0 bob 7 x y -- DC 3 K1"
DomBob ==
    <<"1", ".", "0", " ", "b", "o", "b", " ", "7", " ", "x", " ", "y", " ",
      "-", "-", " ", "D", "C", " ", "3", " ", "K", "1">>

\* "01.0 alice 9 -- -- -- DD 4"
DomAlias ==
    <<"0", "1", ".", "0", " ", "a", "l", "i", "c", "e", " ", "9", " ", "-",
      "-", " ", "-", "-", " ", "-", "-", " ", "D", "D", " ", "4">>

\* "0.2 carol 5 -- --"
DomShort ==
    <<"0", ".", "2", " ", "c", "a", "r", "o", "l", " ", "5", " ", "-", "-",
      " ", "-", "-">>

\* "0.x carol 5 -- -- -- DE 6"
DomNonInt ==
    <<"0", ".", "x", " ", "c", "a", "r", "o", "l", " ", "5", " ", "-", "-",
      " ", "-", "-", " ", "-", "-", " ", "D", "E", " ", "6">>

\* "0.0.1 carol 5 -- -- -- DE 6"
DomTwoDots ==
    <<"0", ".", "0", ".", "1", " ", "c", "a", "r", "o", "l", " ", "5", " ",
      "-", "-", " ", "-", "-", " ", "-", "-", " ", "D", "E", " ", "6">>

\* "0." <HugeDigits> " carol 5 -- -- -- DE 6"
DomHuge ==
    <<"0", ".">>
    \o HugeDigits \o
    <<" ", "c", "a", "r", "o", "l", " ", "5", " ", "-", "-", " ", "-", "-", " ", "-", "-", " ", "D", "E", " ", "6">>

\* "0.5 Owner PID -- -- -- DF 7"
ColHeader ==
    <<"0", ".", "5", " ", "O", "w", "n", "e", "r", " ", "P", "I", "D", " ",
      "-", "-", " ", "-", "-", " ", "-", "-", " ", "D", "F", " ", "7">>

\* "Domain 0.3 dave 1 -- -- -- DG 8"
DomainWord ==
    <<"D", "o", "m", "a", "i", "n", " ", "0", ".", "3", " ", "d", "a", "v",
      "e", " ", "1", " ", "-", "-", " ", "-", "-", " ", "-", "-", " ", "D",
      "G", " ", "8">>

\* "00012.0 erin 1 -- -- -- DH 9"
FarDot ==
    <<"0", "0", "0", "1", "2", ".", "0", " ", "e", "r", "i", "n", " ", "1",
      " ", "-", "-", " ", "-", "-", " ", "-", "-", " ", "D", "H", " ", "9">>

\* "  "
Blank ==
    <<" ", " ">>

(***************************************************************************)
(* Input texts                                                             *)
(***************************************************************************)
\* the sequences over S of length at most n
SeqsUpTo(S, n) == UNION {[1..k -> S] : k \in 0..n}

\* s with x put in after its first k elements
InsertAt(s, k, x) == SubSeq(s, 1, k) \o <<x>> \o SubSeq(s, k + 1, Len(s))

\* s without its k-th element
RemoveAt(s, k) == SubSeq(s, 1, k - 1) \o SubSeq(s, k + 1, Len(s))

EmptyText == << <<>> >>

\* the well-formed lines of a report, and the other lines
Core == {ClusterA, BoardA, DomFree, DomAlice, DomBob}

Odd ==
    {HdrSparse, ClusterB, ClusterBad, BoardB, BoardBad, DomAlias, DomShort,
     DomNonInt, DomTwoDots, ColHeader, DomainWord, FarDot, Blank}

\* the lines with a number over int()'s digit limit
Long == {ClusterHuge, DomHuge}

Corpus == {HdrFull} \cup Core \cup Odd

\* the reports that get one of them
Reports ==
    {<<HdrFull, ClusterA, BoardA, DomFree, DomAlice>>,
     <<HdrSparse, BoardB, DomBob, DomFree>>}

\* lines of a text of any lines of Corpus
MaxLines == 2

\* lines after the header of a well-formed report
MaxBody == 5

\* lines after the header of a well-formed report that gets one other line
MaxOddBody == 2

\* calls made on one parser
MaxCalls == 3

AnyTexts == {EmptyText} \cup (SeqsUpTo(Corpus, MaxLines) \ {<<>>})

CoreTexts == {<<HdrFull>> \o b : b \in SeqsUpTo(Core, MaxBody)}

OddTexts ==
    UNION {{InsertAt(<<HdrFull>> \o b, k, m) : k \in 0..(Len(b) + 1), m \in Odd} :
              b \in SeqsUpTo(Core, MaxOddBody)}

LongTexts ==
    UNION {{InsertAt(r, k, m) : k \in 0..Len(r), m \in Long} : r \in Reports}

ParseTexts == AnyTexts \cup CoreTexts \cup OddTexts \cup LongTexts

\* the texts of the runs that call one parser several times
LifeTexts ==
    {EmptyText,
     <<HdrFull, ClusterA, BoardA, DomFree, DomAlice>>,
     <<HdrSparse, BoardB, DomBob>>,
     <<HdrSparse, BoardA, DomAlice, ClusterHuge, BoardB>>,
     <<Blank, HdrFull, ClusterB, BoardB, DomShort, DomAlias, Blank>>}

\* no text: the input before the first parse
NoText == <<NoneStr>>

(***************************************************************************)
(* The state: one EmulatorResourceParser object and its caller             *)
(***************************************************************************)
VARIABLES
    emulator_name, hardware, configmgr, system_status,  \* the object's fields
    boards, raw_output, timestamp,
    now,      \* what datetime.now() returns; it advances with every call
    op,       \* the last call made: "new", "parse_output" or "run_command"
    exc,      \* the exception that call raised, "none" when it returned
    input,    \* the text last given to parse_output (in SpecParse: to be given)
    prev      \* the object as it was when the last call was made

vars ==
    <<emulator_name, hardware, configmgr, system_status, boards, raw_output,
      timestamp, now, op, exc, input, prev>>

\* the object, as the operators above take it
Self ==
    [emulator_name |-> emulator_name, hardware |-> hardware,
     configmgr |-> configmgr, system_status |-> system_status,
     boards |-> boards, raw_output |-> raw_output, timestamp |-> timestamp]

\* the object becomes self
Becomes(self) ==
    /\ emulator_name' = self.emulator_name
    /\ hardware' = self.hardware
    /\ configmgr' = self.configmgr
    /\ system_status' = self.system_status
    /\ boards' = self.boards
    /\ raw_output' = self.raw_output
    /\ timestamp' = self.timestamp

\* the object is the one __init__ leaves
IsNew ==
    /\ emulator_name = NewParser.emulator_name
    /\ hardware = NewParser.hardware
    /\ configmgr = NewParser.configmgr
    /\ system_status = NewParser.system_status
    /\ boards = NewParser.boards
    /\ raw_output = NewParser.raw_output
    /\ timestamp = NewParser.timestamp

Init ==
    /\ IsNew
    /\ now = 1
    /\ op = "new"
    /\ exc = "none"
    /\ input = NoText
    /\ prev = NewParser

\* a call of parse_output ends as parsed says
ParseEnds(parsed) ==
    /\ Becomes(parsed.self)
    /\ exc' = IF parsed.raised THEN "ValueError" ELSE "none"

\* a call of run_command ends as ran says
RunEnds(ran) ==
    /\ Becomes(ran.self)
    /\ exc' = ran.exc

\* parser.parse_output(text), called by the user
ParseOutput(text) ==
    /\ now <= MaxCalls
    /\ ParseEnds(parse_output(Self, text, now))
    /\ input' = text
    /\ op' = "parse_output"
    /\ now' = now + 1
    /\ prev' = Self

\* parser.run_command(), the command writing text and exiting
RunCommandOutput(text) ==
    /\ now <= MaxCalls
    /\ RunEnds(run_command(Self, [kind |-> "stdout", text |-> text], now))
    /\ input' = text
    /\ op' = "run_command"
    /\ now' = now + 1
    /\ prev' = Self

\* parser.run_command(), the command not ending within the timeout
RunCommandTimeout ==
    /\ now <= MaxCalls
    /\ RunEnds(run_command(Self, [kind |-> "timeout"], now))
    /\ op' = "run_command"
    /\ now' = now + 1
    /\ prev' = Self
    /\ UNCHANGED input

\* parser.run_command(), Popen or communicate raising
RunCommandFails ==
    /\ now <= MaxCalls
    /\ RunEnds(run_command(Self, [kind |-> "oserror"], now))
    /\ op' = "run_command"
    /\ now' = now + 1
    /\ prev' = Self
    /\ UNCHANGED input

Next ==
    \/ \E text \in LifeTexts : ParseOutput(text)
    \/ \E text \in LifeTexts : RunCommandOutput(text)
    \/ RunCommandTimeout
    \/ RunCommandFails

\* one parser, called up to MaxCalls times
Spec == Init /\ [][Next]_vars

\* a new parser and the text it is about to parse
InitParse ==
    /\ IsNew
    /\ now = 1
    /\ op = "new"
    /\ exc = "none"
    /\ input \in ParseTexts
    /\ prev = NewParser

NextParse == op = "new" /\ ParseOutput(input)

\* one parse_output call on a new parser, for every text of ParseTexts
SpecParse == InitParse /\ [][NextParse]_vars

(***************************************************************************)
(* Properties                                                              *)
(***************************************************************************)
Range(s) == {s[k] : k \in 1..Len(s)}

NoRepeats(s) == \A k, l \in 1..Len(s) : k # l => s[k] # s[l]

\* the references to the Domains of the Boards at the places in I
DomainsOfBoards(self, I) ==
    UNION {{<<i, j>> : j \in 1..Len(self.boards[i].domains)} : i \in I}

AllRefs(self) == DomainsOfBoards(self, 1..Len(self.boards))

\* the used Domains: those whose owner is not 'NONE'
UsedRefs(self) == {r \in AllRefs(self) : DomainAt(self, r).owner # LitNONE}

\* r1 comes before r2 when the Boards are scanned in order
Before(r1, r2) == r1[1] < r2[1] \/ (r1[1] = r2[1] /\ r1[2] < r2[2])

\* the Board list a new parser builds from text
FreshBoards(text) == parse_output(NewParser, text, 1).self.boards

\* the lines of text as the loop sees them, stripped; the first is line 0
LoopLines(text) ==
    [k \in 1..Len(StripSplit(text)) |-> StripStr(StripSplit(text)[k])]

\* of a stripped line
WellFormedCluster(line) == StartsWith(line, LitCluster) /\ ClusterMatch(line).ok

ClusterNumber(line) == PyInt(ClusterMatch(line).g1)

WellFormedBoard(line) == BoardBranch(line) /\ BoardMatch(line).ok

BoardNumber(line) == PyInt(BoardMatch(line).g1)

\* the loop's states from line k on, st being the state when it reaches it
RECURSIVE StatesFrom(_, _, _)
StatesFrom(lines, k, st) ==
    IF k > Len(lines) THEN <<st>>
    ELSE <<st>> \o StatesFrom(lines, k + 1,
                              IF st.raised THEN st ELSE ProcessLine(st, lines[k]))

\* the k-th is the loop's state when it reaches lines[k]; the last is the
\* state the loop ends in
LoopStates(lines) ==
    <<LoopStart(<<>>)>> \o StatesFrom(lines, 2, LoopStart(<<>>))

\* the lines after line 0 that the loop reaches: an exception ends it
Reached(lines, states) == {k \in 2..Len(lines) : ~states[k].raised}

\* the reached lines that create a Board
BoardLines(lines, states) ==
    {k \in Reached(lines, states) :
        WellFormedBoard(lines[k]) /\ BoardNumber(lines[k]).ok}

\* the well-formed Cluster lines after line 0
ClusterLines(lines) == {k \in 2..Len(lines) : WellFormedCluster(lines[k])}

\* the n-th smallest element of S
NthOf(S, n) == CHOOSE k \in S : Cardinality({j \in S : j <= k}) = n

\* C1: whatever calls were made before, the Board list (with its Domains) is
\* the one a new parser builds from the text of the last parse alone.
C1_OnlyLastText == input # NoText => boards = FreshBoards(input)

\* a second parse replaced a non-empty Board list by a different one
C1_Witness ==
    /\ op = "parse_output" /\ exc = "none"
    /\ prev.boards # <<>> /\ boards # <<>> /\ boards # prev.boards

\* a stripped line that reaches the domain branch
InDomainBranch(line) ==
    /\ line # <<>>
    /\ ~StartsWith(line, LitCluster)
    /\ ~BoardBranch(line)
    /\ DomainBranch(line)

ColumnHeader(line) == Contains(line, LitOwner) /\ Contains(line, LitPID)

\* a domain line the parser finds malformed: it reaches the domain branch, is
\* no column header, and has fewer than 8 fields or a first field that is not
\* two integers around one dot
MalformedDomainLine(raw) ==
    LET line == StripStr(raw)
    IN  /\ InDomainBranch(line)
        /\ ~ColumnHeader(line)
        /\ \/ Len(SplitWS(line)) < 8
           \/ /\ Contains(SplitWS(line)[1], LitDot)
              /\ ~ParseDomainId(SplitWS(line)[1]).ok

\* the place in text of the line that parse_output takes as line 0
HeaderPlace(text) ==
    IF \A k \in 1..Len(text) : BlankLine(text[k]) THEN 1
    ELSE CHOOSE k \in 1..Len(text) :
             ~BlankLine(text[k]) /\ \A j \in 1..(k - 1) : BlankLine(text[j])

\* parse_output returns for every text
C2_NeverRaises == op = "parse_output" => exc = "none"

\* a malformed domain line after line 0 is skipped on its own: the Boards
\* are those of the text without it
C2_SkippedAlone ==
    op = "parse_output" =>
        \A k \in 1..Len(input) :
            k > HeaderPlace(input) /\ MalformedDomainLine(input[k])
                => boards = FreshBoards(RemoveAt(input, k))

\* C2: parse_output never raises, and a malformed domain line is skipped on
\* its own.
C2_NeverRaisesSkipsAlone == C2_NeverRaises /\ C2_SkippedAlone

\* the cluster filters asked for: none, the ids of the texts, an id of no text
Filters == {None, 0, 7, 3}

Selected(self, f) ==
    {i \in 1..Len(self.boards) : f = None \/ self.boards[i].cluster_id = f}

\* C3: for every filter, get_free_domains and get_used_domains are disjoint
\* and hold, each once, exactly the Domains of the Boards the filter selects.
C3_FreeUsedPartition ==
    \A f \in Filters :
        LET free == get_free_domains(Self, f)
            used == get_used_domains(Self, f)
        IN  /\ Range(free) \cap Range(used) = {}
            /\ NoRepeats(free \o used)
            /\ Range(free) \cup Range(used) = DomainsOfBoards(Self, Selected(Self, f))

\* a filter that selects Domains and leaves out a Board that has some, in a
\* model with free and used Domains
C3_Witness ==
    /\ get_free_domains(Self, None) # <<>>
    /\ get_used_domains(Self, None) # <<>>
    /\ \E f \in Filters \ {None} :
           /\ get_free_domains(Self, f) \o get_used_domains(Self, f) # <<>>
           /\ \E i \in 1..Len(boards) :
                  i \notin Selected(Self, f) /\ boards[i].domains # <<>>

C5_ByUser ==
    LET items == get_domains_by_user(Self)
    IN  /\ \A k, l \in 1..Len(items) : k # l => items[k].user # items[l].user
        /\ \A k \in 1..Len(items) :
               /\ items[k].domains # <<>>
               /\ NoRepeats(items[k].domains)
               /\ \A r \in Range(items[k].domains) :
                      DomainAt(Self, r).owner = items[k].user
               /\ \A m, n \in 1..Len(items[k].domains) :
                      m < n => Before(items[k].domains[m], items[k].domains[n])
        /\ UNION {Range(items[k].domains) : k \in 1..Len(items)} = UsedRefs(Self)
        /\ \A k, l \in 1..Len(items) :
               k < l => Before(items[k].domains[1], items[l].domains[1])

\* two owners, one of them with Domains on two Boards
C5_Witness ==
    LET items == get_domains_by_user(Self)
    IN  /\ Len(items) >= 2
        /\ \E k \in 1..Len(items) :
               \E r1, r2 \in Range(items[k].domains) : r1[1] # r2[1]

\* C6: a run_command that fails leaves the model as it was, not partly
\* updated: timestamp, raw output, header fields and Boards still belong
\* together.
C6_FailedRunChangesNothing ==
    (op = "run_command" /\ exc # "none") => Self = prev

\* C7 as claimed: after every parse_output call the timestamp is the time of
\* that call.
C7_StampedByEveryParse == op = "parse_output" => timestamp = now - 1

\* C7: parse_output takes the time of the call only when no timestamp is set
\* yet; otherwise it leaves the timestamp as it was.
C7_StampedWhenUnset ==
    op = "parse_output" =>
        timestamp = IF prev.timestamp = None THEN now - 1 ELSE prev.timestamp

\* a later parse_output that kept an earlier timestamp
C7_Witness ==
    op = "parse_output" /\ prev.timestamp # None /\ timestamp < now - 1

\* C8 as claimed: no two Domains of the model have the same full id.
C8_FullIdUnique ==
    \A r1, r2 \in AllRefs(Self) :
        r1 # r2 =>
            get_full_id(DomainAt(Self, r1)) # get_full_id(DomainAt(Self, r2))

\* C8: two Domains of the model have the same full id exactly when they have
\* the same board and domain numbers.
C8_FullIdKeyOfNumbers ==
    \A r1, r2 \in AllRefs(Self) :
        get_full_id(DomainAt(Self, r1)) = get_full_id(DomainAt(Self, r2))
            <=> /\ DomainAt(Self, r1).board = DomainAt(Self, r2).board
                /\ DomainAt(Self, r1).domain = DomainAt(Self, r2).domain

\* two Domains with one full id, from the lines "1.0 ..." and "01.0 ..."
C8_Witness ==
    /\ op = "parse_output"
    /\ DomBob \in Range(input) /\ DomAlias \in Range(input)
    /\ \E r1, r2 \in AllRefs(Self) :
           /\ r1 # r2
           /\ DomainAt(Self, r1).owner # DomainAt(Self, r2).owner
           /\ get_full_id(DomainAt(Self, r1)) = get_full_id(DomainAt(Self, r2))

\* the cluster id a Board made by line k gets: the number of the last
\* well-formed Cluster line after line 0 and before line k, if any
ClusterBefore(lines, clusters, k) ==
    IF \A j \in clusters : j > k THEN None
    ELSE ClusterNumber(lines[SetMax({j \in clusters : j < k})]).val

\* a line that starts with Cluster and has not the expected shape
MalformedCluster(line) ==
    StartsWith(line, LitCluster) /\ ~WellFormedCluster(line)

\* C9: each Board has the cluster id of the last well-formed Cluster line
\* before its Board line (after line 0), unset if there is none; a line that
\* starts with Cluster and does not match changes nothing.
C9_ClusterOfBoard ==
    op = "parse_output" =>
        LET lines    == LoopLines(input)
            states   == LoopStates(lines)
            reached  == Reached(lines, states)
            made     == BoardLines(lines, states)
            clusters == ClusterLines(lines)
        IN  /\ Len(boards) = Cardinality(made)
            /\ \A n \in 1..Len(boards) :
                   /\ boards[n].cluster_id
                          = ClusterBefore(lines, clusters, NthOf(made, n))
                   /\ boards[n].board_id = BoardNumber(lines[NthOf(made, n)]).val
            /\ \A k \in reached :
                   MalformedCluster(lines[k]) => states[k + 1] = states[k]

\* a Board line after a malformed Cluster line that follows a well-formed one
C9_Witness ==
    /\ op = "parse_output"
    /\ LET lines   == LoopLines(input)
           reached == Reached(lines, LoopStates(lines))
           made    == BoardLines(lines, LoopStates(lines))
       IN  \E j, k, m \in reached :
               /\ j < k /\ k < m
               /\ WellFormedCluster(lines[j])
               /\ MalformedCluster(lines[k])
               /\ m \in made
               /\ boards[Cardinality({b \in made : b <= m})].cluster_id # None

\* the places of the dots of field
Dots(field) == {p \in 1..Len(field) : field[p] = "."}

\* the text before and after the first dot of field
LeftOfDot(field) == Slice(field, 1, SetMin(Dots(field)) - 1)

RightOfDot(field) == Slice(field, SetMin(Dots(field)) + 1, Len(field))

\* field is <int>.<int>
IntDotInt(field) ==
    /\ Cardinality(Dots(field)) = 1
    /\ PyInt(LeftOfDot(field)).ok
    /\ PyInt(RightOfDot(field)).ok

\* C10: a line of the domain branch that is no column header adds a Domain
\* if and only if it has 8 fields or more, a Board line came before and its
\* field 0 is <int>.<int>; the Domain goes to the end of the last Board made,
\* whatever its numbers, and nothing else changes.
C10_DomainLine ==
    op = "parse_output" =>
        LET lines   == LoopLines(input)
            states  == LoopStates(lines)
            reached == Reached(lines, states)
            made    == BoardLines(lines, states)
        IN  /\ boards = states[Len(lines) + 1].boards
            /\ \A k \in reached :
                   (InDomainBranch(lines[k]) /\ ~ColumnHeader(lines[k])) =>
                       LET before == states[k]
                           after  == states[k + 1]
                           fields == SplitWS(lines[k])
                           n      == Cardinality({b \in made : b < k})
                       IN  IF /\ Len(fields) >= 8
                              /\ n > 0
                              /\ IntDotInt(fields[1])
                           THEN /\ n = Len(before.boards)
                                /\ Len(after.boards[n].domains)
                                       = Len(before.boards[n].domains) + 1
                                /\ after = [before EXCEPT !.boards[n].domains =
                                               Append(@, after.boards[n].domains[Len(@) + 1])]
                                /\ after.boards[n].domains[Len(after.boards[n].domains)].board
                                       = PyInt(LeftOfDot(fields[1])).val
                                /\ after.boards[n].domains[Len(after.boards[n].domains)].domain
                                       = PyInt(RightOfDot(fields[1])).val
                           ELSE after = before

\* a Domain whose board number is not the id of the Board it was added to
C10_Witness ==
    /\ op = "parse_output"
    /\ \E r \in AllRefs(Self) : DomainAt(Self, r).board # boards[r[1]].board_id

====
